---- MODULE Spec2Model ----
(***************************************************************************)
(* Model of the PCOS chatbot backend: the diet-plan generation pipeline    *)
(* (src/utils/huggingface.py) and the saved-plan persistence handlers      *)
(* (src/routes/diet.py).                                                    *)
(*                                                                         *)
(* Python strings are modelled as sequences of one-character strings, so   *)
(* that split / strip / replace / lower / substring tests are computed the *)
(* way the interpreter computes them.  Python dicts are functions whose    *)
(* DOMAIN is the set of keys present.                                       *)
(***************************************************************************)
EXTENDS Integers, Sequences, FiniteSets, TLC

VARIABLES
  pc,        \* position of the diet-generation request
  prefs,     \* user_preferences handed to generate_diet_plan
  payload,   \* the payload built for the inference endpoint
  result,    \* what query_model handed back (or raised)
  calls,     \* outbound calls made for the current request
  envelope,  \* the mapping generate_diet_plan returned
  escaped,   \* the exception generate_diet_plan let through to its caller
  store,     \* diet_plans collection: _id -> document
  clock,     \* datetime.utcnow() as seen by the handlers
  resp,      \* last HTTP outcome of a persistence handler
  ppc,       \* position of a direct use of the response parser
  pin,       \* the generated text and day count handed to the parser
  pplan,     \* the plan _parse_diet_response returned
  praised,   \* whether an exception occurred while the lines were processed
  pgrocery,  \* the grocery list built from pplan
  saves,     \* save requests in flight: request -> its position and document
  users,     \* users collection: _id -> document
  regs       \* register requests: request -> its position, e-mail and outcome

vars == <<pc, prefs, payload, result, calls, envelope, escaped, store, clock, resp,
          ppc, pin, pplan, praised, pgrocery, saves, users, regs>>

genVars == <<pc, prefs, payload, result, calls, envelope, escaped>>
storeVars == <<store, clock, resp>>
parseVars == <<ppc, pin, pplan, praised, pgrocery>>
regVars == <<users, regs>>

-----------------------------------------------------------------------------
(* Python str primitives over sequences of characters.                     *)

LowerLetters ==
  <<"a","b","c","d","e","f","g","h","i","j","k","l","m",
    "n","o","p","q","r","s","t","u","v","w","x","y","z">>

UpperLetters ==
  <<"A","B","C","D","E","F","G","H","I","J","K","L","M",
    "N","O","P","Q","R","S","T","U","V","W","X","Y","Z">>

Digits == <<"0","1","2","3","4","5","6","7","8","9">>

Whitespace == {" ", "\t", "\n", "\r", "\f"}

IsDigit(c) == \E i \in 1..10 : Digits[i] = c

DigitValue(c) == (CHOOSE i \in 1..10 : Digits[i] = c) - 1

LowerChar(c) ==
  IF \E i \in 1..26 : UpperLetters[i] = c
  THEN LowerLetters[CHOOSE i \in 1..26 : UpperLetters[i] = c]
  ELSE c

UpperChar(c) ==
  IF \E i \in 1..26 : LowerLetters[i] = c
  THEN UpperLetters[CHOOSE i \in 1..26 : LowerLetters[i] = c]
  ELSE c

\* str.lower()
Lower(s) == [i \in 1..Len(s) |-> LowerChar(s[i])]

\* str.upper()
Upper(s) == [i \in 1..Len(s) |-> UpperChar(s[i])]

\* s[i:i+len(p)] == p
MatchAt(s, p, i) ==
  /\ i >= 1
  /\ i + Len(p) - 1 <= Len(s)
  /\ \A k \in 1..Len(p) : s[i + k - 1] = p[k]

\* str.find(p) + 1 (0 when p does not occur)
Find(s, p) ==
  LET hits == {i \in 1..(Len(s) - Len(p) + 1) : MatchAt(s, p, i)}
  IN  IF hits = {} THEN 0 ELSE CHOOSE i \in hits : \A j \in hits : i <= j

\* p in s
Contains(s, p) == Find(s, p) # 0

\* str.startswith(p)
StartsWith(s, p) == MatchAt(s, p, 1)

\* str.strip()
Strip(s) ==
  LET keep == {i \in 1..Len(s) : s[i] \notin Whitespace}
  IN  IF keep = {} THEN <<>>
      ELSE SubSeq(s, CHOOSE i \in keep : \A j \in keep : i <= j,
                     CHOOSE i \in keep : \A j \in keep : i >= j)

\* str.split(sep), sep non-empty
RECURSIVE Split(_, _)
Split(s, sep) ==
  LET i == Find(s, sep)
  IN  IF i = 0 THEN <<s>>
      ELSE <<SubSeq(s, 1, i - 1)>> \o Split(SubSeq(s, i + Len(sep), Len(s)), sep)

\* sep.join(parts)
RECURSIVE Join(_, _)
Join(parts, sep) ==
  IF Len(parts) = 0 THEN <<>>
  ELSE IF Len(parts) = 1 THEN parts[1]
  ELSE parts[1] \o sep \o Join(Tail(parts), sep)

\* str.replace(old, new), old non-empty
Replace(s, old, new) == Join(Split(s, old), new)

\* int(digits)
RECURSIVE ToInt(_)
ToInt(ds) ==
  IF Len(ds) = 0 THEN 0
  ELSE 10 * ToInt(SubSeq(ds, 1, Len(ds) - 1)) + DigitValue(ds[Len(ds)])

-----------------------------------------------------------------------------
(* HuggingFaceService._extract_calories: re.search(r'(\d+)\s*cal', text,    *)
(* re.IGNORECASE); int(group(1)) of the leftmost match, else 0.             *)

\* last index of the maximal digit run that starts at i
DigitRunEnd(t, i) ==
  CHOOSE j \in i..Len(t) :
    /\ \A k \in i..j : IsDigit(t[k])
    /\ (j = Len(t) \/ ~IsDigit(t[j + 1]))

\* first index >= i that holds no whitespace (Len(t) + 1 when there is none)
SkipSpace(t, i) ==
  CHOOSE j \in i..(Len(t) + 1) :
    /\ \A k \in i..(j - 1) : t[k] \in Whitespace
    /\ (j = Len(t) + 1 \/ t[j] \notin Whitespace)

\* the pattern matches with its group starting at i
CalorieMatchAt(t, i) ==
  /\ IsDigit(t[i])
  /\ MatchAt(Lower(t), <<"c","a","l">>, SkipSpace(t, DigitRunEnd(t, i) + 1))

extract_calories(text) ==
  LET hits == {i \in 1..Len(text) : CalorieMatchAt(text, i)}
  IN  IF hits = {} THEN 0
      ELSE LET i == CHOOSE h \in hits : \A g \in hits : h <= g
           IN  ToInt(SubSeq(text, i, DigitRunEnd(text, i)))

-----------------------------------------------------------------------------
(* Python values.                                                          *)

\* None, and the empty string where only its truth value is read
None == <<>>

\* {}
EmptyDict == [k \in {} |-> k]

\* d[k] = v
Put(d, k, v) == [x \in (DOMAIN d) \cup {k} |-> IF x = k THEN v ELSE d[x]]

Range(f) == {f[x] : x \in DOMAIN f}

\* str(n) for n >= 0
RECURSIVE IntToStr(_)
IntToStr(n) ==
  IF n < 10 THEN <<Digits[n + 1]>>
  ELSE IntToStr(n \div 10) \o <<Digits[(n % 10) + 1]>>

-----------------------------------------------------------------------------
(* HuggingFaceService._get_fallback_diet_plan and                          *)
(* _get_fallback_structured_plan.                                          *)

\* breakfast: 'PCOS-Friendly Oatmeal Bowl', 350 cal, ['1/2 cup steel-cut oats', '1 tbsp almond butter', '1/4 cup berries', '1 tsp cinnamon'], '10 minutes'
fallback_breakfast ==
  [name |-> <<"P","C","O","S","-","F","r","i","e","n","d","l","y"," ","O","a","t","m","e","a","l"," ","B","o","w","l">>,
   calories |-> 350,
   ingredients |-> << <<"1","/","2"," ","c","u","p"," ","s","t","e","e","l","-","c","u","t"," ","o","a","t","s">>,
                     <<"1"," ","t","b","s","p"," ","a","l","m","o","n","d"," ","b","u","t","t","e","r">>,
                     <<"1","/","4"," ","c","u","p"," ","b","e","r","r","i","e","s">>,
                     <<"1"," ","t","s","p"," ","c","i","n","n","a","m","o","n">> >>,
   prep_time |-> <<"1","0"," ","m","i","n","u","t","e","s">>]

\* lunch: 'Quinoa Power Salad', 450 cal, ['1/2 cup quinoa', '2 cups spinach', '1/4 cup chickpeas', '1 tbsp olive oil', 'lemon juice'], '15 minutes'
fallback_lunch ==
  [name |-> <<"Q","u","i","n","o","a"," ","P","o","w","e","r"," ","S","a","l","a","d">>,
   calories |-> 450,
   ingredients |-> << <<"1","/","2"," ","c","u","p"," ","q","u","i","n","o","a">>,
                     <<"2"," ","c","u","p","s"," ","s","p","i","n","a","c","h">>,
                     <<"1","/","4"," ","c","u","p"," ","c","h","i","c","k","p","e","a","s">>,
                     <<"1"," ","t","b","s","p"," ","o","l","i","v","e"," ","o","i","l">>,
                     <<"l","e","m","o","n"," ","j","u","i","c","e">> >>,
   prep_time |-> <<"1","5"," ","m","i","n","u","t","e","s">>]

\* dinner: 'Grilled Salmon with Vegetables', 500 cal, ['4 oz salmon', '1 cup broccoli', '1/2 cup sweet potato', 'herbs', 'olive oil'], '25 minutes'
fallback_dinner ==
  [name |-> <<"G","r","i","l","l","e","d"," ","S","a","l","m","o","n"," ","w","i","t","h"," ","V","e","g","e","t","a","b","l","e","s">>,
   calories |-> 500,
   ingredients |-> << <<"4"," ","o","z"," ","s","a","l","m","o","n">>,
                     <<"1"," ","c","u","p"," ","b","r","o","c","c","o","l","i">>,
                     <<"1","/","2"," ","c","u","p"," ","s","w","e","e","t"," ","p","o","t","a","t","o">>,
                     <<"h","e","r","b","s">>,
                     <<"o","l","i","v","e"," ","o","i","l">> >>,
   prep_time |-> <<"2","5"," ","m","i","n","u","t","e","s">>]

\* snack: 'Greek Yogurt with Nuts', 200 cal, ['1/2 cup Greek yogurt', '1 tbsp walnuts', '1 tsp honey'], '2 minutes'
fallback_snack ==
  [name |-> <<"G","r","e","e","k"," ","Y","o","g","u","r","t"," ","w","i","t","h"," ","N","u","t","s">>,
   calories |-> 200,
   ingredients |-> << <<"1","/","2"," ","c","u","p"," ","G","r","e","e","k"," ","y","o","g","u","r","t">>,
                     <<"1"," ","t","b","s","p"," ","w","a","l","n","u","t","s">>,
                     <<"1"," ","t","s","p"," ","h","o","n","e","y">> >>,
   prep_time |-> <<"2"," ","m","i","n","u","t","e","s">>]

key_breakfast == <<"b","r","e","a","k","f","a","s","t">>  \* "breakfast"
key_lunch == <<"l","u","n","c","h">>  \* "lunch"
key_dinner == <<"d","i","n","n","e","r">>  \* "dinner"
key_snack == <<"s","n","a","c","k">>  \* "snack"

key_day_1 == <<"d","a","y","_","1">>  \* "day_1"

\* the single fixed day template, base_plan["day_1"]
fallback_day ==
  (key_breakfast :> fallback_breakfast) @@ (key_lunch :> fallback_lunch) @@
  (key_dinner :> fallback_dinner) @@ (key_snack :> fallback_snack)

\* _get_fallback_diet_plan(dietary_style, days): neither argument is read
get_fallback_diet_plan(dietary_style, days) == (key_day_1 :> fallback_day)

\* f"day_{i+1}"
DayKey(n) == <<"d","a","y","_">> \o IntToStr(n)

\* get_fallback_structured_plan that hands back the one-day base plan
get_fallback_structured_plan_one_day(days) ==
  get_fallback_diet_plan("mixed", days)

\* {f"day_{i+1}": base_plan["day_1"] for i in range(days)}
get_fallback_structured_plan(days) ==
  LET base_plan == get_fallback_diet_plan("mixed", 1)
  IN  [k \in {DayKey(i + 1) : i \in 0..(days - 1)} |-> base_plan[key_day_1]]

-----------------------------------------------------------------------------
(* HuggingFaceService._parse_diet_response.                                *)

str_DAY == <<"D","A","Y"," ">>  \* 'DAY '
str_Ingredients == <<"I","n","g","r","e","d","i","e","n","t","s",":">>  \* 'Ingredients:'
str_Prep_time == <<"P","r","e","p"," ","t","i","m","e",":">>  \* 'Prep time:'
str_colon == <<":">>
str_comma == <<",">>
str_space == <<" ">>
str_underscore == <<"_">>
str_newline == <<"\n">>
str_dash == <<" ","-"," ">>  \* ' - '

\* ['BREAKFAST:', 'LUNCH:', 'DINNER:', 'SNACK:']
MealMarkers ==
  << <<"B","R","E","A","K","F","A","S","T",":">>,
     <<"L","U","N","C","H",":">>,
     <<"D","I","N","N","E","R",":">>,
     <<"S","N","A","C","K",":">> >>

\* any(meal in line.upper() for meal in [...])
HasMealMarker(line) ==
  \E i \in 1..Len(MealMarkers) : Contains(Upper(line), MealMarkers[i])

\* DayHeader with the colon left in the key (replace(':', '') dropped)
DayHeader_keeps_colon(st, line) ==
  LET current_day == Replace(Lower(line), str_space, str_underscore)
  IN  [st EXCEPT !.day = current_day,
                 !.plan = Put(st.plan, current_day, EmptyDict)]

\* the day-header branch (lines 158-160)
DayHeader(st, line) ==
  LET current_day == Replace(Lower(Replace(line, str_colon, <<>>)),
                             str_space, str_underscore)
  IN  [st EXCEPT !.day = current_day,
                 !.plan = Put(st.plan, current_day, EmptyDict)]

\* MealLine that opens day_1 by itself when no day header came before
MealLine_default_day(st, line) ==
  LET meal_parts == Split(line, str_colon)
      day == IF st.day # None THEN st.day ELSE key_day_1
      meals == IF day \in DOMAIN st.plan THEN st.plan[day] ELSE EmptyDict
  IN  IF Len(meal_parts) >= 2
      THEN LET meal_type == Lower(meal_parts[1])
               meal_info == Strip(meal_parts[2])
           IN  [st EXCEPT
                  !.plan = Put(st.plan, day,
                               Put(meals, meal_type,
                                   [name |-> Split(meal_info, str_dash)[1],
                                    calories |-> extract_calories(meal_info),
                                    ingredients |-> <<>>,
                                    prep_time |-> <<>>])),
                  !.day = day,
                  !.meal = meal_type]
      ELSE st

\* the meal branch (lines 163-176)
MealLine(st, line) ==
  LET meal_parts == Split(line, str_colon)
  IN  IF Len(meal_parts) >= 2
      THEN LET meal_type == Lower(meal_parts[1])
               meal_info == Strip(meal_parts[2])
           IN  IF st.day # None
               THEN [st EXCEPT
                       !.plan = Put(st.plan, st.day,
                                    Put(st.plan[st.day], meal_type,
                                        [name |-> Split(meal_info, str_dash)[1],
                                         calories |-> extract_calories(meal_info),
                                         ingredients |-> <<>>,
                                         prep_time |-> <<>>])),
                       !.meal = meal_type]
               ELSE st
      ELSE st

\* IngredientList that keeps the blanks around each ingredient
IngredientList_untrimmed(line) ==
  Split(Strip(Replace(line, str_Ingredients, <<>>)), str_comma)

\* [ing.strip() for ing in ingredients.split(',')]
IngredientList(line) ==
  LET parts == Split(Strip(Replace(line, str_Ingredients, <<>>)), str_comma)
  IN  [i \in 1..Len(parts) |-> Strip(parts[i])]

\* the ingredients branch (lines 179-183); parsed_plan[current_day][current_meal]
\* raises KeyError when the current day holds no such meal
IngredientsLine(st, line) ==
  IF st.meal \notin DOMAIN st.plan[st.day]
  THEN [st EXCEPT !.raised = TRUE]
  ELSE [st EXCEPT !.plan = Put(st.plan, st.day,
                               Put(st.plan[st.day], st.meal,
                                   [st.plan[st.day][st.meal] EXCEPT
                                      !.ingredients = IngredientList(line)]))]

\* the prep-time branch (lines 186-188), same lookup
PrepTimeLine(st, line) ==
  IF st.meal \notin DOMAIN st.plan[st.day]
  THEN [st EXCEPT !.raised = TRUE]
  ELSE [st EXCEPT !.plan = Put(st.plan, st.day,
                               Put(st.plan[st.day], st.meal,
                                   [st.plan[st.day][st.meal] EXCEPT
                                      !.prep_time = Strip(Replace(line, str_Prep_time, <<>>))]))]

\* one iteration of the loop over lines (lines 154-188)
ParseLine(st, raw) ==
  LET line == Strip(raw)
  IN  IF st.raised THEN st
      ELSE IF StartsWith(line, str_DAY) THEN DayHeader(st, line)
      ELSE IF HasMealMarker(line) THEN MealLine(st, line)
      ELSE IF StartsWith(line, str_Ingredients) /\ st.day # None /\ st.meal # None
           THEN IngredientsLine(st, line)
      ELSE IF StartsWith(line, str_Prep_time) /\ st.day # None /\ st.meal # None
           THEN PrepTimeLine(st, line)
      ELSE st

RECURSIVE ParseLines(_, _)
ParseLines(st, lines) ==
  IF Len(lines) = 0 THEN st
  ELSE ParseLines(ParseLine(st, Head(lines)), Tail(lines))

\* the try block of _parse_diet_response on a str: the plan built, and whether an
\* exception left the loop
ParseText(text) ==
  ParseLines([plan |-> EmptyDict, day |-> None, meal |-> None, raised |-> FALSE],
             Split(text, str_newline))

\* generated_text is a Python value [t |-> type tag, ...]; .split exists on str only
ParseRaises(generated_text) ==
  IF generated_text.t = "str" THEN ParseText(generated_text.s).raised ELSE TRUE

parse_diet_response(generated_text, days) ==
  IF ParseRaises(generated_text)
  THEN get_fallback_structured_plan(days)
  ELSE ParseText(generated_text.s).plan

-----------------------------------------------------------------------------
(* HuggingFaceService._generate_grocery_list.                              *)

\* protein_keywords = ['chicken', 'fish', 'salmon', 'tuna', 'eggs', 'tofu', 'lentils', 'beans', 'chickpeas', 'quinoa']
protein_keywords ==
  << <<"c","h","i","c","k","e","n">>,
     <<"f","i","s","h">>,
     <<"s","a","l","m","o","n">>,
     <<"t","u","n","a">>,
     <<"e","g","g","s">>,
     <<"t","o","f","u">>,
     <<"l","e","n","t","i","l","s">>,
     <<"b","e","a","n","s">>,
     <<"c","h","i","c","k","p","e","a","s">>,
     <<"q","u","i","n","o","a">> >>

\* vegetable_keywords = ['spinach', 'kale', 'broccoli', 'cauliflower', 'bell pepper', 'zucchini', 'cucumber', 'tomato']
vegetable_keywords ==
  << <<"s","p","i","n","a","c","h">>,
     <<"k","a","l","e">>,
     <<"b","r","o","c","c","o","l","i">>,
     <<"c","a","u","l","i","f","l","o","w","e","r">>,
     <<"b","e","l","l"," ","p","e","p","p","e","r">>,
     <<"z","u","c","c","h","i","n","i">>,
     <<"c","u","c","u","m","b","e","r">>,
     <<"t","o","m","a","t","o">> >>

\* fruit_keywords = ['berries', 'apple', 'orange', 'avocado', 'lemon', 'lime']
fruit_keywords ==
  << <<"b","e","r","r","i","e","s">>,
     <<"a","p","p","l","e">>,
     <<"o","r","a","n","g","e">>,
     <<"a","v","o","c","a","d","o">>,
     <<"l","e","m","o","n">>,
     <<"l","i","m","e">> >>

\* grain_keywords = ['oats', 'brown rice', 'quinoa', 'whole wheat']
grain_keywords ==
  << <<"o","a","t","s">>,
     <<"b","r","o","w","n"," ","r","i","c","e">>,
     <<"q","u","i","n","o","a">>,
     <<"w","h","o","l","e"," ","w","h","e","a","t">> >>

\* dairy_keywords = ['greek yogurt', 'cottage cheese', 'almond milk', 'coconut milk']
dairy_keywords ==
  << <<"g","r","e","e","k"," ","y","o","g","u","r","t">>,
     <<"c","o","t","t","a","g","e"," ","c","h","e","e","s","e">>,
     <<"a","l","m","o","n","d"," ","m","i","l","k">>,
     <<"c","o","c","o","n","u","t"," ","m","i","l","k">> >>

\* pantry_keywords = ['olive oil', 'nuts', 'seeds', 'vinegar', 'honey']
pantry_keywords ==
  << <<"o","l","i","v","e"," ","o","i","l">>,
     <<"n","u","t","s">>,
     <<"s","e","e","d","s">>,
     <<"v","i","n","e","g","a","r">>,
     <<"h","o","n","e","y">> >>


\* the order in which the six keyword loops run (lines 236-275)
CategoryOrder == <<"proteins", "vegetables", "fruits", "grains", "dairy", "pantry">>

CategoryKeywords ==
  <<protein_keywords, vegetable_keywords, fruit_keywords,
    grain_keywords, dairy_keywords, pantry_keywords>>

\* the keys grocery_categories starts with (lines 204-212)
GroceryCategories ==
  {"proteins", "vegetables", "fruits", "grains", "dairy", "pantry", "spices"}

\* keyword in ingredient_lower, for some keyword of loop i
MatchesCategory(ingredient_lower, i) ==
  \E k \in 1..Len(CategoryKeywords[i]) :
    Contains(ingredient_lower, CategoryKeywords[i][k])

\* CategoryOf in which the last matching keyword list wins
CategoryOf_last_match(ingredient) ==
  LET ingredient_lower == Lower(ingredient)
      hits == {i \in 1..Len(CategoryOrder) : MatchesCategory(ingredient_lower, i)}
  IN  IF hits = {} THEN "pantry"
      ELSE CategoryOrder[CHOOSE i \in hits : \A j \in hits : i >= j]

\* the category whose list the ingredient is appended to (lines 232-278)
CategoryOf(ingredient) ==
  LET ingredient_lower == Lower(ingredient)
      hits == {i \in 1..Len(CategoryOrder) : MatchesCategory(ingredient_lower, i)}
  IN  IF hits = {} THEN "pantry"
      ELSE CategoryOrder[CHOOSE i \in hits : \A j \in hits : i <= j]

\* all_ingredients (lines 222-229)
AllIngredients(diet_plan) ==
  UNION {UNION {Range(diet_plan[d][m].ingredients) : m \in DOMAIN diet_plan[d]}
         : d \in DOMAIN diet_plan}

\* CategoryItems without the blank filter of line 283
CategoryItems_keeps_blank(diet_plan) ==
  LET assigned == [ing \in AllIngredients(diet_plan) |-> CategoryOf(ing)]
  IN  [c \in GroceryCategories |-> {ing \in DOMAIN assigned : assigned[ing] = c}]

\* grocery_categories after the categorization loop, the dedupe and the blank
\* filter (lines 232-283): category -> set of ingredients
CategoryItems(diet_plan) ==
  LET assigned == [ing \in AllIngredients(diet_plan) |-> CategoryOf(ing)]
  IN  [c \in GroceryCategories |->
         {ing \in DOMAIN assigned : assigned[ing] = c /\ Strip(ing) # <<>>}]

\* {k: v for k, v in grocery_categories.items() if v}
generate_grocery_list(diet_plan) ==
  LET grocery_categories == CategoryItems(diet_plan)
  IN  [c \in {k \in GroceryCategories : grocery_categories[k] # {}} |->
         grocery_categories[c]]

-----------------------------------------------------------------------------
(* Python values handed back by response.json(): [t |-> "null"],           *)
(* [t |-> "num", n |-> ..], [t |-> "str", s |-> ..],                       *)
(* [t |-> "list", items |-> <<values>>],                                   *)
(* [t |-> "dict", items |-> <<[k |-> key, v |-> value], ..>>].             *)

PyNull == [t |-> "null"]
PyNum(n) == [t |-> "num", n |-> n]
PyString(s) == [t |-> "str", s |-> s]
PyList(items) == [t |-> "list", items |-> items]
PyDict(items) == [t |-> "dict", items |-> items]

NoException == "no exception"

str_error == <<"e","r","r","o","r">>  \* "error"
str_generated_text == <<"g","e","n","e","r","a","t","e","d","_","t","e","x","t">>  \* 'generated_text'

RECURSIVE Concat(_)
Concat(parts) == IF Len(parts) = 0 THEN <<>> ELSE Head(parts) \o Concat(Tail(parts))

\* one character of a str inside its repr, quoted with q
ReprChar(c, q) ==
  IF c = "\\" THEN <<"\\", "\\">>
  ELSE IF c = "\n" THEN <<"\\", "n">>
  ELSE IF c = "\t" THEN <<"\\", "t">>
  ELSE IF c = "\r" THEN <<"\\", "r">>
  ELSE IF c = q THEN <<"\\", c>>
  ELSE <<c>>

\* repr(s) of a str: single quotes unless s holds ' and no "
ReprStr(s) ==
  LET q == IF Contains(s, <<"'">>) /\ ~Contains(s, <<"\"">>) THEN "\"" ELSE "'"
  IN  <<q>> \o Concat([i \in 1..Len(s) |-> ReprChar(s[i], q)]) \o <<q>>

RECURSIVE PyRepr(_)
PyRepr(v) ==
  IF v.t = "null" THEN <<"N","o","n","e">>
  ELSE IF v.t = "num" THEN IntToStr(v.n)
  ELSE IF v.t = "str" THEN ReprStr(v.s)
  ELSE IF v.t = "list"
       THEN <<"[">> \o Join([i \in 1..Len(v.items) |-> PyRepr(v.items[i])],
                            <<",", " ">>) \o <<"]">>
  ELSE <<"{">> \o Join([i \in 1..Len(v.items) |->
                          ReprStr(v.items[i].k) \o <<":", " ">> \o PyRepr(v.items[i].v)],
                       <<",", " ">>) \o <<"}">>

\* str(v)
PyStr(v) == IF v.t = "str" THEN v.s ELSE PyRepr(v)

\* d.get(key, default) on a dict value
DictGet(d, key, default) ==
  LET hits == {i \in 1..Len(d.items) : d.items[i].k = key}
  IN  IF hits = {} THEN default
      ELSE d.items[CHOOSE i \in hits : \A j \in hits : i >= j].v

-----------------------------------------------------------------------------
(* HuggingFaceService.query_model (lines 19-29).  The exchange with the    *)
(* inference endpoint ends in one of: a requests.RequestException (no      *)
(* connection, timeout, non-2xx status), a decoded JSON value, or another  *)
(* exception, which query_model does not catch.                            *)

query_model(exchange) ==
  IF exchange.kind = "request_exception"
  THEN [raised |-> NoException,
        value |-> PyDict(<<[k |-> str_error, v |-> PyString(exchange.text)]>>)]
  ELSE IF exchange.kind = "json"
  THEN [raised |-> NoException, value |-> exchange.value]
  ELSE [raised |-> "ValueError", value |-> PyNull]

-----------------------------------------------------------------------------
(* HuggingFaceService.generate_diet_plan (lines 31-92).                    *)

GenericError == "Unable to generate diet plan at the moment. Please try again."

DefaultDays == 7

\* user_preferences.get('days', 7)
PrefDays(user_preferences) ==
  IF "days" \in DOMAIN user_preferences THEN user_preferences.days ELSE DefaultDays

\* user_preferences.get('dietary_style', 'vegetarian')
PrefStyle(user_preferences) ==
  IF "dietary_style" \in DOMAIN user_preferences
  THEN user_preferences.dietary_style ELSE "vegetarian"

\* f" avoiding {', '.join(allergies)}" if allergies else "" (lines 98-99, with the
\* lead-in text of either line); the items are str, as DietPreferences validates
ListText(lead, items) ==
  IF Len(items) = 0 THEN <<>> ELSE lead \o Join(items, <<",", " ">>)

\* _create_diet_prompt (lines 94-144): the values interpolated into the fixed
\* template text
create_diet_prompt(dietary_style, calorie_goal, days, allergies, symptoms, cuisine, budget) ==
  [days |-> IntToStr(days),
   dietary_style |-> dietary_style,
   calorie_goal |-> IntToStr(calorie_goal),
   cuisine |-> cuisine,
   budget |-> budget,
   allergy_text |-> ListText(<<" ","a","v","o","i","d","i","n","g"," ">>, allergies),
   symptom_text |-> ListText(<<" ","f","o","c","u","s","i","n","g"," ","o","n"," ","m","a","n","a","g","i","n","g"," ">>, symptoms)]

\* the payload of lines 48-57
Payload(user_preferences) ==
  [inputs |-> create_diet_prompt(PrefStyle(user_preferences),
                                 user_preferences.calorie_goal,
                                 PrefDays(user_preferences),
                                 user_preferences.allergies,
                                 user_preferences.symptoms,
                                 user_preferences.cuisine,
                                 user_preferences.budget),
   parameters |-> [max_new_tokens |-> 1500, temperature |-> "0.7", do_sample |-> TRUE,
                   top_p |-> "0.9", return_full_text |-> FALSE]]

\* "error" in result (line 62): "raises" when result supports no membership test
HasError(res) ==
  IF res.t = "dict" THEN \E i \in 1..Len(res.items) : res.items[i].k = str_error
  ELSE IF res.t = "list"
       THEN \E i \in 1..Len(res.items) :
              res.items[i].t = "str" /\ res.items[i].s = str_error
  ELSE IF res.t = "str" THEN Contains(res.s, str_error)
  ELSE FALSE

HasErrorRaises(res) == res.t \notin {"dict", "list", "str"}

\* lines 70-73: [exc, text]; result[0].get exists on a dict only
GeneratedText(res) ==
  IF res.t = "list" /\ Len(res.items) > 0
  THEN IF res.items[1].t = "dict"
       THEN [exc |-> NoException,
             text |-> DictGet(res.items[1], str_generated_text, PyString(<<>>))]
       ELSE [exc |-> "AttributeError: object has no attribute 'get'", text |-> PyNull]
  ELSE [exc |-> NoException, text |-> PyString(PyStr(res))]

\* the mapping returned on lines 63-67
ErrorIndicatorEnvelope(user_preferences) ==
  [success |-> FALSE,
   error |-> GenericError,
   fallback_plan |-> get_fallback_diet_plan(PrefStyle(user_preferences),
                                            PrefDays(user_preferences))]

\* the mapping returned on lines 78-84
SuccessEnvelope(user_preferences, generated_text, now) ==
  LET structured_plan == parse_diet_response(generated_text, PrefDays(user_preferences))
  IN  [success |-> TRUE,
       diet_plan |-> structured_plan,
       user_preferences |-> user_preferences,
       generated_at |-> now,
       grocery_list |-> generate_grocery_list(structured_plan)]

\* ExceptEnvelope that also hands back an (empty) diet_plan
ExceptEnvelope_with_plan(user_preferences, e) ==
  [success |-> FALSE,
   error |-> e,
   diet_plan |-> EmptyDict,
   fallback_plan |-> get_fallback_diet_plan(PrefStyle(user_preferences),
                                            PrefDays(user_preferences))]

\* ExceptEnvelope that reports the generic message instead of str(e)
ExceptEnvelope_generic_error(user_preferences, e) ==
  [success |-> FALSE,
   error |-> GenericError,
   fallback_plan |-> get_fallback_diet_plan(PrefStyle(user_preferences),
                                            PrefDays(user_preferences))]

\* the mapping returned by the except branch (lines 86-92)
ExceptEnvelope(user_preferences, e) ==
  [success |-> FALSE,
   error |-> e,
   fallback_plan |-> get_fallback_diet_plan(PrefStyle(user_preferences),
                                            PrefDays(user_preferences))]

\* the try block (lines 59-84): [exc, value]
TryBlock(user_preferences, reply, now) ==
  IF reply.raised # NoException THEN [exc |-> reply.raised, value |-> None]
  ELSE IF HasErrorRaises(reply.value)
  THEN [exc |-> "TypeError: argument is not iterable", value |-> None]
  ELSE IF HasError(reply.value)
  THEN [exc |-> NoException, value |-> ErrorIndicatorEnvelope(user_preferences)]
  ELSE LET g == GeneratedText(reply.value)
       IN  IF g.exc # NoException THEN [exc |-> g.exc, value |-> None]
           ELSE [exc |-> NoException,
                 value |-> SuccessEnvelope(user_preferences, g.text, now)]

\* an except clause that names ValueError instead of Exception
Catches_only_value_error(e) == e = "ValueError"

\* which exceptions of the try block the except clause catches: Exception, so all
Catches(e) == TRUE

\* generate_diet_plan as its caller sees it: the mapping returned, or the exception
\* that escaped
generate_diet_plan(user_preferences, reply, now) ==
  LET t == TryBlock(user_preferences, reply, now)
  IN  IF t.exc = NoException THEN [escaped |-> NoException, value |-> t.value]
      ELSE IF Catches(t.exc)
           THEN [escaped |-> NoException, value |-> ExceptEnvelope(user_preferences, t.exc)]
           ELSE [escaped |-> t.exc, value |-> None]

-----------------------------------------------------------------------------
(* Inputs of the diet-generation pipeline.                                 *)

MaxDays == 3
MaxChunks == 2

\* dietary_style with the allergies sent along
Profiles ==
  {[dietary_style |-> "vegetarian", allergies |-> <<>>],
   [dietary_style |-> "keto", allergies |-> <<<<"g","l","u","t","e","n">>, <<"s","o","y">>>>]}

\* the mapping the /diet/generate route builds from a validated DietPreferences
\* (src/routes/diet.py lines 28-38); avoid_foods and preferred_foods, which
\* generate_diet_plan never reads, are left out
PrefsSet ==
  {[dietary_style |-> p.dietary_style,
    calorie_goal |-> 1800,
    days |-> d,
    allergies |-> p.allergies,
    symptoms |-> <<<<"a","c","n","e">>>>,
    cuisine |-> "mixed",
    budget |-> "moderate"] : p \in Profiles, d \in 1..MaxDays}

\* 'DAY 1:'
chunk_day_1 ==
  <<"D","A","Y"," ","1",":">>

\* 'DAY 2:'
chunk_day_2 ==
  <<"D","A","Y"," ","2",":">>

\* 'LUNCH: Power Bowl - 450cal\nIngredients: chicken breast, spinach, quinoa, olive oil, random herb xyz'
chunk_lunch ==
  <<"L","U","N","C","H",":"," ","P","o","w","e","r"," ","B","o","w","l"," ","-"," ","4","5","0","c","a","l","\n","I","n","g","r","e","d","i","e","n","t","s",":"," ","c","h","i","c","k","e","n"," ","b","r","e","a","s","t",","," ","s","p","i","n","a","c","h",","," ","q","u","i","n","o","a",","," ","o","l","i","v","e"," ","o","i","l",","," ","r","a","n","d","o","m"," ","h","e","r","b"," ","x","y","z">>

\* 'Prep time: 10 minutes'
chunk_prep ==
  <<"P","r","e","p"," ","t","i","m","e",":"," ","1","0"," ","m","i","n","u","t","e","s">>

\* 'Here is your plan'
chunk_prose ==
  <<"H","e","r","e"," ","i","s"," ","y","o","u","r"," ","p","l","a","n">>

\* 'DAY 1:\nSNACK: Nuts - 100cal\nDAY 2:\nPrep time: 5 minutes'
chunk_stale ==
  <<"D","A","Y"," ","1",":","\n","S","N","A","C","K",":"," ","N","u","t","s"," ","-"," ","1","0","0","c","a","l","\n","D","A","Y"," ","2",":","\n","P","r","e","p"," ","t","i","m","e",":"," ","5"," ","m","i","n","u","t","e","s">>

TextChunks == {chunk_day_1, chunk_day_2, chunk_lunch, chunk_prep, chunk_prose, chunk_stale}

ChunkSeqs == UNION {[1..n -> TextChunks] : n \in 0..MaxChunks}

\* texts the model may generate: up to MaxChunks chunks, one per line group
Texts == {Join(cs, str_newline) : cs \in ChunkSeqs}

\* [{"generated_text": text}]
Generation(text) == PyList(<<PyDict(<<[k |-> str_generated_text, v |-> text]>>)>>)

\* values response.json() may hold that are not a list of generations
OtherJson ==
  { PyDict(<<[k |-> str_error, v |-> PyString(<<"M","o","d","e","l"," ","i","s"," ","l","o","a","d","i","n","g">>)]>>),
    PyList(<<>>),
    PyDict(<<[k |-> str_generated_text, v |-> PyString(chunk_day_1)]>>),
    PyNull,
    PyList(<<PyNull>>),
    PyList(<<PyDict(<<>>)>>),
    Generation(PyNull) }

Exchanges ==
  {[kind |-> "request_exception", text |-> <<"5","0","3"," ","S","e","r","v","e","r"," ","E","r","r","o","r">>],
   [kind |-> "other_exception"]}
  \cup {[kind |-> "json", value |-> v] : v \in OtherJson}
  \cup {[kind |-> "json", value |-> Generation(PyString(t))] : t \in Texts}

-----------------------------------------------------------------------------
(* One diet-generation request: the service call of                        *)
(* src/routes/diet.py line 41, step by step.                               *)

\* AfterReply with a retry: an error indicator sends the request back to the call
AfterReply_retry(reply) ==
  IF reply.raised = NoException /\ reply.value.t = "dict" /\ HasError(reply.value)
  THEN "awaiting" ELSE "responded"

\* where the coroutine continues once query_model has returned (line 60): the
\* reply is handled, the call is not repeated
AfterReply(reply) == "responded"

\* lines 34-57: the preferences are read and the payload is built
Request(p) ==
  /\ pc \in {"idle", "done"}
  /\ pc' = "awaiting"
  /\ prefs' = p
  /\ payload' = Payload(p)
  /\ calls' = 0
  /\ result' = None
  /\ envelope' = None
  /\ escaped' = NoException
  /\ UNCHANGED <<storeVars, parseVars, saves, regVars>>

\* line 60: the single awaited call of query_model
QueryModel(exchange) ==
  /\ pc = "awaiting"
  /\ calls' = calls + 1
  /\ result' = query_model(exchange)
  /\ pc' = AfterReply(result')
  /\ UNCHANGED <<prefs, payload, envelope, escaped>>
  /\ UNCHANGED <<storeVars, parseVars, saves, regVars>>

\* lines 62-92: the reply is turned into the returned mapping
Respond ==
  /\ pc = "responded"
  /\ LET out == generate_diet_plan(prefs, result, IntToStr(clock))
     IN  /\ envelope' = out.value
         /\ escaped' = out.escaped
  /\ pc' = "done"
  /\ UNCHANGED <<prefs, payload, result, calls>>
  /\ UNCHANGED <<storeVars, parseVars, saves, regVars>>

-----------------------------------------------------------------------------
(* Saved diet plans: the handlers of src/routes/diet.py over the           *)
(* diet_plans collection.  A document is                                   *)
(* [user_id, plan_name, created_at, is_active], keyed by its _id.          *)

NumUsers == 2
MaxPlans == 2

HTTP_200_OK == 200
HTTP_404_NOT_FOUND == 404
HTTP_500_INTERNAL_SERVER_ERROR == 500

\* to_list(length=100)
ListLimit == 100

\* current_user.id of the authenticated callers
Users == 1..NumUsers

\* plan_id path parameters: ObjectId(plan_id) raises InvalidId on a malformed one
PlanIds ==
  {[valid |-> FALSE, oid |-> 0]} \cup {[valid |-> TRUE, oid |-> i] : i \in 1..(MaxPlans + 1)}

NoPlanId == [valid |-> FALSE, oid |-> 0]

NoResponse ==
  [op |-> "none", caller |-> 0, plan_id |-> NoPlanId, status |-> 0,
   detail |-> "", body |-> <<>>]

\* the document as the handler holds it, with plan["id"] = str(plan["_id"])
Document(id) ==
  [id |-> id,
   user_id |-> store[id].user_id,
   plan_name |-> store[id].plan_name,
   created_at |-> store[id].created_at,
   is_active |-> store[id].is_active]

\* ListFilter without the is_active condition
ListFilter_ignores_active(doc, user) == doc.user_id = user

\* {"user_id": current_user.id, "is_active": True} (line 152)
ListFilter(doc, user) == doc.user_id = user /\ doc.is_active = TRUE

\* GetFilter without the user_id condition
GetFilter_no_owner(id, doc, plan_id, user) ==
  id = plan_id.oid /\ doc.is_active = TRUE

\* {"_id": ObjectId(plan_id), "user_id": current_user.id, "is_active": True}
\* (lines 177-181)
GetFilter(id, doc, plan_id, user) ==
  id = plan_id.oid /\ doc.user_id = user /\ doc.is_active = TRUE

\* DeleteFilter without the user_id condition
DeleteFilter_no_owner(id, doc, plan_id, user) == id = plan_id.oid

\* {"_id": ObjectId(plan_id), "user_id": current_user.id} (line 205)
DeleteFilter(id, doc, plan_id, user) ==
  id = plan_id.oid /\ doc.user_id = user

\* {"$set": {"is_active": False}} applied to the matched document (line 206)
DeleteUpdate(docs, id) == [docs EXCEPT ![id].is_active = FALSE]

\* the except clause that closes every handler: except Exception catches the
\* HTTPException raised inside the try block as well, and answers 500
Boundary(op, user, plan_id, inner_status, inner_detail) ==
  [op |-> op, caller |-> user, plan_id |-> plan_id,
   status |-> HTTP_500_INTERNAL_SERVER_ERROR,
   detail |-> inner_detail, body |-> <<>>]

Ok(op, user, plan_id, detail, body) ==
  [op |-> op, caller |-> user, plan_id |-> plan_id,
   status |-> HTTP_200_OK, detail |-> detail, body |-> body]

\* sequences of the ids in S ordered by created_at descending (.sort("created_at", -1));
\* documents with equal created_at come in any order
RECURSIVE SortedDescending(_)
SortedDescending(S) ==
  IF S = {} THEN {<<>>}
  ELSE LET newest == {m \in S : \A x \in S : store[m].created_at >= store[x].created_at}
       IN  UNION {{<<m>> \o rest : rest \in SortedDescending(S \ {m})} : m \in newest}

\* the first n elements
Take(s, n) == SubSeq(s, 1, IF Len(s) < n THEN Len(s) ELSE n)

\* save_diet_plan (lines 106-144): insert_one acknowledged with the generated _id;
\* cap is the number of documents the collection is let grow to
SavePlanWithin(cap, user, name, dt) ==
  /\ Cardinality(DOMAIN store) < cap
  /\ clock' = clock + dt
  /\ store' = Put(store, Cardinality(DOMAIN store) + 1,
                  [user_id |-> user, plan_name |-> name,
                   created_at |-> clock', is_active |-> TRUE])
  /\ resp' = Ok("save", user, NoPlanId, "saved successfully", <<>>)
  /\ UNCHANGED <<genVars, parseVars, saves, regVars>>

SavePlan(user, name, dt) == SavePlanWithin(MaxPlans, user, name, dt)

\* save_diet_plan when insert_one raises: nothing is stored
SavePlanFails(user) ==
  /\ resp' = Boundary("save", user, NoPlanId, HTTP_500_INTERNAL_SERVER_ERROR,
                      "Error saving diet plan")
  /\ UNCHANGED <<store, clock>>
  /\ UNCHANGED <<genVars, parseVars, saves, regVars>>

\* get_my_diet_plans (lines 146-170); converts tells whether every
\* SavedDietPlan(**plan) validates and the query went through
GetMyPlans(user, converts) ==
  /\ \E plans \in SortedDescending({id \in DOMAIN store : ListFilter(store[id], user)}) :
       resp' = IF converts
               THEN Ok("my-plans", user, NoPlanId, "",
                       Take([i \in 1..Len(plans) |-> Document(plans[i])], ListLimit))
               ELSE Boundary("my-plans", user, NoPlanId, HTTP_500_INTERNAL_SERVER_ERROR,
                             "Error retrieving diet plans")
  /\ UNCHANGED <<store, clock>>
  /\ UNCHANGED <<genVars, parseVars, saves, regVars>>

\* get_diet_plan (lines 172-197)
GetPlan(user, plan_id, converts) ==
  /\ LET found == {id \in DOMAIN store : GetFilter(id, store[id], plan_id, user)}
     IN  resp' =
           IF ~plan_id.valid
           THEN Boundary("get-plan", user, plan_id, HTTP_500_INTERNAL_SERVER_ERROR,
                         "Error retrieving diet plan: InvalidId")
           ELSE IF found = {}
           THEN Boundary("get-plan", user, plan_id, HTTP_404_NOT_FOUND,
                         "Error retrieving diet plan: 404: Diet plan not found")
           ELSE IF converts
           THEN Ok("get-plan", user, plan_id, "",
                   <<Document(CHOOSE id \in found : TRUE)>>)
           ELSE Boundary("get-plan", user, plan_id, HTTP_500_INTERNAL_SERVER_ERROR,
                         "Error retrieving diet plan")
  /\ UNCHANGED <<store, clock>>
  /\ UNCHANGED <<genVars, parseVars, saves, regVars>>

\* delete_diet_plan (lines 199-222)
DeletePlan(user, plan_id) ==
  /\ LET matched == {id \in DOMAIN store : DeleteFilter(id, store[id], plan_id, user)}
     IN  IF ~plan_id.valid
         THEN /\ resp' = Boundary("delete-plan", user, plan_id,
                                  HTTP_500_INTERNAL_SERVER_ERROR,
                                  "Error deleting diet plan: InvalidId")
              /\ store' = store
         ELSE IF matched = {}
         THEN /\ resp' = Boundary("delete-plan", user, plan_id, HTTP_404_NOT_FOUND,
                                  "Error deleting diet plan: 404: Diet plan not found")
              /\ store' = store
         ELSE /\ resp' = Ok("delete-plan", user, plan_id,
                            "Diet plan deleted successfully", <<>>)
              /\ store' = DeleteUpdate(store, CHOOSE id \in matched : TRUE)
  /\ UNCHANGED clock
  /\ UNCHANGED <<genVars, parseVars, saves, regVars>>

-----------------------------------------------------------------------------
(* Specifications.                                                         *)

Init ==
  /\ pc = "idle"
  /\ prefs = None
  /\ payload = None
  /\ result = None
  /\ calls = 0
  /\ envelope = None
  /\ escaped = NoException
  /\ store = EmptyDict
  /\ clock = 0
  /\ resp = NoResponse
  /\ ppc = "idle"
  /\ pin = None
  /\ pplan = None
  /\ praised = FALSE
  /\ pgrocery = None
  /\ saves = EmptyDict
  /\ users = EmptyDict
  /\ regs = EmptyDict

\* the diet-generation pipeline
Next ==
  \/ \E p \in PrefsSet : Request(p)
  \/ \E x \in Exchanges : QueryModel(x)
  \/ Respond

Spec == Init /\ [][Next]_vars

\* the saved-plan handlers, called in any order by any users
NextStore ==
  \/ \E u \in Users, dt \in 0..1 : SavePlan(u, "my plan", dt)
  \/ \E u \in Users : SavePlanFails(u)
  \/ \E u \in Users, c \in BOOLEAN : GetMyPlans(u, c)
  \/ \E u \in Users, p \in PlanIds, c \in BOOLEAN : GetPlan(u, p, c)
  \/ \E u \in Users, p \in PlanIds : DeletePlan(u, p)

SpecStore == Init /\ [][NextStore]_vars

-----------------------------------------------------------------------------
(* The response parser and the grocery categorizer used on their own:      *)
(* _parse_diet_response(generated_text, days) followed by                  *)
(* _generate_grocery_list(structured_plan), as generate_diet_plan calls    *)
(* them on lines 76 and 83 of src/utils/huggingface.py.                    *)

MaxParts == 2

\* 'DAY 1:\nLUNCH: Salad (note: filling) - 450cal'
part_day_lunch ==
  <<"D","A","Y"," ","1",":","\n","L","U","N","C","H",":"," ","S","a","l","a","d"," ","(","n","o","t","e",":"," ","f","i","l","l","i","n","g",")"," ","-"," ","4","5","0","c","a","l">>

\* 'DAY 2:'
part_day_2 ==
  <<"D","A","Y"," ","2",":">>

\* '  DAY 2: Monday\nIngredients: spinach, , Oats'
part_day_monday ==
  <<" "," ","D","A","Y"," ","2",":"," ","M","o","n","d","a","y","\n","I","n","g","r","e","d","i","e","n","t","s",":"," ","s","p","i","n","a","c","h",","," ",","," ","O","a","t","s">>

\* 'Healthy BREAKFAST: Oats\nIngredients: spinach, , Oats'
part_breakfast ==
  <<"H","e","a","l","t","h","y"," ","B","R","E","A","K","F","A","S","T",":"," ","O","a","t","s","\n","I","n","g","r","e","d","i","e","n","t","s",":"," ","s","p","i","n","a","c","h",","," ",","," ","O","a","t","s">>

\* 'Prep time: 5 minutes'
part_prep ==
  <<"P","r","e","p"," ","t","i","m","e",":"," ","5"," ","m","i","n","u","t","e","s">>

\* 'snack: nuts 20 Cal'
part_snack ==
  <<"s","n","a","c","k",":"," ","n","u","t","s"," ","2","0"," ","C","a","l">>

TextParts == {part_day_lunch, part_day_2, part_day_monday, part_breakfast, part_prep, part_snack}

PartSeqs == UNION {[1..n -> TextParts] : n \in 0..MaxParts}

\* generated texts put together from up to MaxParts groups of lines
PoolTexts == {Join(ps, str_newline) : ps \in PartSeqs}

\* the components of a text of the shape
\*   DAY k: / M: Name - Ncal / Ingredients: a, b
\* with or without a final newline
Shapes ==
  [k : 1..MaxDays,
   m : 1..Len(MealMarkers),
   name : {<<"O","a","t","s">>, <<"P","o","w","e","r"," ","B","o","w","l">>},
   cal : {300, 45},
   a : {<<"o","a","t","s">>, <<" ","b","r","o","w","n"," ","r","i","c","e"," ">>},
   b : {<<"m","i","l","k">>},
   trail : BOOLEAN]

str_cal == <<"c","a","l">>  \* 'cal'

ShapedText(sh) ==
  str_DAY \o IntToStr(sh.k) \o str_colon \o str_newline
  \o MealMarkers[sh.m] \o str_space \o sh.name \o str_dash
  \o IntToStr(sh.cal) \o str_cal \o str_newline
  \o str_Ingredients \o str_space \o sh.a \o str_comma \o str_space \o sh.b
  \o (IF sh.trail THEN str_newline ELSE <<>>)

\* what the parser is handed: the text, the day count and, for a shaped text,
\* its components
ParseInputs ==
  {[kind |-> "pool", text |-> t, days |-> d, shape |-> None] : t \in PoolTexts, d \in 1..MaxDays}
  \cup {[kind |-> "shaped", text |-> ShapedText(sh), days |-> d, shape |-> sh] :
          sh \in Shapes, d \in 1..MaxDays}

\* structured_plan = self._parse_diet_response(generated_text, days)  (line 76)
Parse(input) ==
  /\ ppc = "idle"
  /\ ppc' = "parsed"
  /\ pin' = input
  /\ pplan' = parse_diet_response(PyString(input.text), input.days)
  /\ praised' = ParseRaises(PyString(input.text))
  /\ pgrocery' = None
  /\ UNCHANGED <<genVars, storeVars, saves, regVars>>

\* self._generate_grocery_list(structured_plan)  (line 83)
Categorize ==
  /\ ppc = "parsed"
  /\ ppc' = "listed"
  /\ pgrocery' = generate_grocery_list(pplan)
  /\ UNCHANGED <<pin, pplan, praised>>
  /\ UNCHANGED <<genVars, storeVars, saves, regVars>>

NextParse ==
  \/ \E input \in ParseInputs : Parse(input)
  \/ Categorize

SpecParse == Init /\ [][NextParse]_vars

-----------------------------------------------------------------------------
(* save_diet_plan under concurrent requests (src/routes/diet.py lines       *)
(* 106-144).  The handler is a coroutine: it builds the document, awaits   *)
(* insert_one, and returns after the acknowledgement; other requests run   *)
(* while it waits.                                                         *)

MaxSaves == 2

Requests == 1..MaxSaves

\* insert_one with an upsert keyed on the owner: a document of the same user
\* is replaced
InsertOne_upsert_by_user(docs, doc) ==
  LET own == {id \in DOMAIN docs : docs[id].user_id = doc.user_id}
  IN  IF own = {}
      THEN Put(docs, Cardinality(DOMAIN docs) + 1, doc)
      ELSE Put(docs, CHOOSE id \in own : TRUE, doc)

\* the _id generated for a document that has none: one no stored document has
NewId(docs) == Cardinality(DOMAIN docs) + 1

\* diet_plans_collection.insert_one(diet_plan_doc) (line 129)
InsertOne(docs, doc) == Put(docs, NewId(docs), doc)

\* lines 117-129 up to the await: the document is built from the caller and
\* datetime.utcnow(); requests are numbered in the order they arrive
SaveBuild(r, user, dt) ==
  /\ r \notin DOMAIN saves
  /\ r = Cardinality(DOMAIN saves) + 1
  /\ clock' = clock + dt
  /\ saves' = Put(saves, r,
                  [stage |-> "awaiting", user |-> user, inserted_id |-> 0,
                   doc |-> [user_id |-> user, plan_name |-> "my plan",
                            created_at |-> clock', is_active |-> TRUE]])
  /\ UNCHANGED <<store, resp>>
  /\ UNCHANGED <<genVars, parseVars, regVars>>

\* the database performs the insert (line 129); the acknowledgement carries the
\* generated _id (result.inserted_id, line 131)
SaveInsert(r) ==
  /\ r \in DOMAIN saves
  /\ saves[r].stage = "awaiting"
  /\ store' = InsertOne(store, saves[r].doc)
  /\ saves' = [saves EXCEPT ![r].stage = "inserted",
                            ![r].inserted_id = NewId(store)]
  /\ UNCHANGED <<clock, resp>>
  /\ UNCHANGED <<genVars, parseVars, regVars>>

\* insert_one raises: nothing is stored, the except branch answers 500
\* (lines 139-144)
SaveInsertFails(r) ==
  /\ r \in DOMAIN saves
  /\ saves[r].stage = "awaiting"
  /\ saves' = [saves EXCEPT ![r].stage = "failed"]
  /\ resp' = Boundary("save", saves[r].user, NoPlanId, HTTP_500_INTERNAL_SERVER_ERROR,
                      "Error saving diet plan")
  /\ UNCHANGED <<store, clock>>
  /\ UNCHANGED <<genVars, parseVars, regVars>>

\* the coroutine resumes with result.inserted_id and returns the message
\* (lines 131-132)
SaveReturn(r) ==
  /\ r \in DOMAIN saves
  /\ saves[r].stage = "inserted"
  /\ saves' = [saves EXCEPT ![r].stage = "saved"]
  /\ resp' = Ok("save", saves[r].user, NoPlanId, "saved successfully", <<>>)
  /\ UNCHANGED <<store, clock>>
  /\ UNCHANGED <<genVars, parseVars, regVars>>

NextSaves ==
  \/ \E r \in Requests, u \in Users, dt \in 0..1 : SaveBuild(r, u, dt)
  \/ \E r \in Requests : SaveInsert(r)
  \/ \E r \in Requests : SaveInsertFails(r)
  \/ \E r \in Requests : SaveReturn(r)

SpecSaves == Init /\ [][NextSaves]_vars

-----------------------------------------------------------------------------
(* One user who keeps saving plans, one after the other, and the listings  *)
(* of my-plans in between; the collection grows one document past the      *)
(* length my-plans asks to_list for.                                       *)

\* the user who saves
Saver == 1

NextList ==
  \/ SavePlanWithin(ListLimit + 1, Saver, "my plan", 1)
  \/ \E u \in Users, c \in BOOLEAN : GetMyPlans(u, c)

SpecList == Init /\ [][NextList]_vars

-----------------------------------------------------------------------------
(* register under concurrent requests (src/routes/auth.py lines 19-63).    *)
(* The handler is a coroutine: it awaits get_user_by_email, and, when no   *)
(* user was found, awaits insert_one; other requests run while it waits.   *)

MaxRegs == 3

HTTP_201_CREATED == 201
HTTP_400_BAD_REQUEST == 400

\* user_data.email of the requests
Emails == {"ada@example.org", "bea@example.org"}

\* utils.auth.get_user_by_email: the stored users with that e-mail (the caller
\* tests the result for truth only)
get_user_by_email(docs, email) == {id \in DOMAIN docs : docs[id].email = email}

\* lines 24-29: the request arrives and looks the e-mail up; a user found ends
\* it with 400 "Email already registered"; requests are numbered in the order
\* they arrive
RegisterLookup(r, email) ==
  /\ r \notin DOMAIN regs
  /\ r = Cardinality(DOMAIN regs) + 1
  /\ r <= MaxRegs
  /\ regs' = Put(regs, r,
                 IF get_user_by_email(users, email) # {}
                 THEN [stage |-> "rejected", email |-> email, inserted_id |-> 0,
                       status |-> HTTP_400_BAD_REQUEST,
                       detail |-> "Email already registered"]
                 ELSE [stage |-> "checked", email |-> email, inserted_id |-> 0,
                       status |-> 0, detail |-> ""])
  /\ UNCHANGED users
  /\ UNCHANGED <<genVars, storeVars, parseVars, saves>>

\* lines 31-63: the user document is built and inserted, and the token is
\* returned with 201
RegisterInsert(r) ==
  /\ r \in DOMAIN regs
  /\ regs[r].stage = "checked"
  /\ users' = InsertOne(users, [name |-> "user", email |-> regs[r].email])
  /\ regs' = [regs EXCEPT ![r].stage = "registered",
                          ![r].inserted_id = NewId(users),
                          ![r].status = HTTP_201_CREATED]
  /\ UNCHANGED <<genVars, storeVars, parseVars, saves>>

NextRegister ==
  \/ \E r \in 1..MaxRegs, e \in Emails : RegisterLookup(r, e)
  \/ \E r \in 1..MaxRegs : RegisterInsert(r)

SpecRegister == Init /\ [][NextRegister]_vars

-----------------------------------------------------------------------------
(* Properties of the diet-generation pipeline (checked under Spec).        *)

\* the reply of the endpoint was an error indicator: a mapping with an "error" key
\* (query_model builds one from every RequestException)
ErrorIndicatorReply ==
  /\ result.raised = NoException
  /\ result.value.t = "dict"
  /\ HasError(result.value)

\* the reply is a non-empty sequence whose first element carries a text field
GenerationReply ==
  /\ result.raised = NoException
  /\ result.value.t = "list"
  /\ Len(result.value.items) > 0
  /\ result.value.items[1].t = "dict"
  /\ \E i \in 1..Len(result.value.items[1].items) :
       result.value.items[1].items[i].k = str_generated_text

\* C1: generate_diet_plan never raises to its caller: whatever the preferences and
\* whatever the single model call produced, the request ends with a returned
\* mapping that carries a boolean success field.
C1_NeverRaises ==
  pc = "done" =>
    /\ escaped = NoException
    /\ "success" \in DOMAIN envelope
    /\ envelope.success \in BOOLEAN

\* C1 witness: a reply whose first element is not a mapping made result[0].get
\* raise inside the try block, and the request still ended with an envelope.
C1_Witness ==
  /\ pc = "done"
  /\ result.raised = NoException
  /\ result.value.t = "list"
  /\ Len(result.value.items) > 0
  /\ result.value.items[1].t = "null"
  /\ envelope.success = FALSE

\* C2: every returned envelope satisfies the GenerationResult invariant:
\* success=true has diet_plan and grocery_list and neither error nor fallback_plan;
\* success=false has error and fallback_plan and no diet_plan.
C2_EnvelopeInvariant ==
  pc = "done" =>
    IF envelope.success
    THEN /\ {"diet_plan", "grocery_list"} \subseteq DOMAIN envelope
         /\ {"error", "fallback_plan"} \cap DOMAIN envelope = {}
    ELSE /\ {"error", "fallback_plan"} \subseteq DOMAIN envelope
         /\ "diet_plan" \notin DOMAIN envelope

\* C2 witness: an exception inside the try block produced the failure envelope.
C2_Witness ==
  /\ pc = "done"
  /\ result.raised # NoException
  /\ envelope.success = FALSE
  /\ envelope.error = result.raised

\* the day keys the 'DAY ' header lines of a text stand for
HeaderKeys(text) ==
  LET lines == Split(text, str_newline)
  IN  {Replace(Lower(Replace(Strip(lines[i]), str_colon, <<>>)),
               str_space, str_underscore) :
         i \in {j \in 1..Len(lines) : StartsWith(Strip(lines[j]), str_DAY)}}

\* C3 as stated: success=true with every key day_1 .. day_N in diet_plan, or
\* success=false with a non-empty fallback_plan.
C3_AllDaysOrFallback ==
  pc = "done" =>
    IF envelope.success
    THEN \A k \in 1..PrefDays(prefs) : DayKey(k) \in DOMAIN envelope.diet_plan
    ELSE "fallback_plan" \in DOMAIN envelope /\ envelope.fallback_plan # EmptyDict

\* C3 amended: success=true with a diet_plan that holds exactly one key per 'DAY '
\* header line of the generated text (possibly none, possibly fewer than N), or
\* exactly day_1 .. day_N when the parser substituted its fallback; or
\* success=false with a non-empty fallback_plan.  Never both absent.
C3_HeaderDaysOrFallback ==
  pc = "done" =>
    IF envelope.success
    THEN /\ "diet_plan" \in DOMAIN envelope
         /\ LET g == GeneratedText(result.value).text
            IN  DOMAIN envelope.diet_plan =
                  IF ParseRaises(g)
                  THEN {DayKey(k) : k \in 1..PrefDays(prefs)}
                  ELSE HeaderKeys(g.s)
    ELSE "fallback_plan" \in DOMAIN envelope /\ envelope.fallback_plan # EmptyDict

\* C3 witness: a generation without the requested day headers came back as
\* success=true with fewer day keys than requested.
C3_Witness ==
  /\ pc = "done"
  /\ GenerationReply
  /\ envelope.success = TRUE
  /\ DOMAIN envelope.diet_plan = {key_day_1}
  /\ PrefDays(prefs) = 2

\* C4: when the endpoint fails or returns an error indicator, the envelope is
\* success=false with the generic message and a fallback_plan of exactly the N
\* keys day_1 .. day_N, each the fixed day template.
C4_FallbackCoversDays ==
  (pc = "done" /\ ErrorIndicatorReply) =>
    /\ envelope.success = FALSE
    /\ envelope.error = GenericError
    /\ envelope.fallback_plan = get_fallback_structured_plan(PrefDays(prefs))

\* C5: any reply that is not a non-empty sequence of generations whose first
\* element carries a text field ends in success=false with a fallback_plan.
C5_NonSuccessShapeFallsBack ==
  (pc = "done" /\ result.raised = NoException /\ ~GenerationReply) =>
    /\ envelope.success = FALSE
    /\ "fallback_plan" \in DOMAIN envelope

\* C6: a request makes at most one outbound call, on every path, and its envelope
\* exists only once that call has completed.
C6_SingleCall ==
  /\ calls <= 1
  /\ pc \in {"responded", "done"} => calls = 1
  /\ pc \in {"idle", "awaiting"} => calls = 0
  /\ pc # "done" => envelope = None

\* C6 witness: the call came back with an error indicator and the request ended
\* in the failure envelope after that one call.
C6_Witness ==
  /\ pc = "done"
  /\ ErrorIndicatorReply
  /\ calls = 1
  /\ envelope.success = FALSE

\* ["chicken breast", "spinach", "quinoa", "olive oil", "random herb xyz"]
SampleIngredients ==
  { <<"c","h","i","c","k","e","n"," ","b","r","e","a","s","t">>,
    <<"s","p","i","n","a","c","h">>,
    <<"q","u","i","n","o","a">>,
    <<"o","l","i","v","e"," ","o","i","l">>,
    <<"r","a","n","d","o","m"," ","h","e","r","b"," ","x","y","z">> }

\* C10: a plan whose ingredients are exactly the five sample ingredients is
\* categorized as proteins = {chicken breast}, vegetables = {spinach},
\* grains = {quinoa}, pantry = {olive oil, random herb xyz}, and nothing else.
C10_SampleCategorization ==
  (/\ pc = "done"
   /\ envelope.success = TRUE
   /\ AllIngredients(envelope.diet_plan) = SampleIngredients) =>
    envelope.grocery_list =
      ("proteins" :> {<<"c","h","i","c","k","e","n"," ","b","r","e","a","s","t">>}) @@
      ("vegetables" :> {<<"s","p","i","n","a","c","h">>}) @@
      ("grains" :> {<<"q","u","i","n","o","a">>}) @@
      ("pantry" :> {<<"o","l","i","v","e"," ","o","i","l">>,
                    <<"r","a","n","d","o","m"," ","h","e","r","b"," ","x","y","z">>})

-----------------------------------------------------------------------------
(* Properties of the saved-plan handlers (checked under SpecStore).        *)

ReadOps == {"my-plans", "get-plan"}

\* the _ids of the documents a response carries
ReturnedIds(r) == {r.body[i].id : i \in 1..Len(r.body)}

\* C7: no read (my-plans, get-plan) ever returns to caller U a saved plan whose
\* stored user_id differs from U.
C7_ReadsOnlyOwnPlans ==
  resp.op \in ReadOps =>
    \A i \in 1..Len(resp.body) :
      /\ resp.body[i].user_id = resp.caller
      /\ store[resp.body[i].id].user_id = resp.caller

\* C7 witness: get-plan returned a plan to its owner while the store also holds a
\* plan of another user.
C7_Witness ==
  /\ resp.op = "get-plan"
  /\ resp.status = HTTP_200_OK
  /\ Len(resp.body) = 1
  /\ \E id \in DOMAIN store : store[id].user_id # resp.caller

\* C8: get-plan or delete-plan on an existing plan of another user is answered
\* with the not-found failure (404), not with a server error.
C8_OwnershipViolationIsNotFound ==
  (/\ resp.op \in {"get-plan", "delete-plan"}
   /\ resp.plan_id.valid
   /\ resp.plan_id.oid \in DOMAIN store
   /\ store[resp.plan_id.oid].user_id # resp.caller) =>
    resp.status = HTTP_404_NOT_FOUND

\* one step keeps every record, never reactivates one, leaves its owner alone, and
\* a read answered in this step returns no record that was already inactive
SoftDeleteStep ==
  \A id \in DOMAIN store :
    /\ id \in DOMAIN store'
    /\ store'[id].user_id = store[id].user_id
    /\ store[id].is_active = FALSE =>
         /\ store'[id].is_active = FALSE
         /\ resp'.op \in ReadOps => id \notin ReturnedIds(resp')

\* C9: soft delete: once a plan is deleted it stays out of my-plans and get-plan
\* for good, and its record stays in storage with is_active=false; no step removes
\* a record or sets is_active back to true.
C9_SoftDelete == [][SoftDeleteStep]_vars

\* C9 witness: the owner of a deleted plan listed their plans afterwards and got
\* their other, still active plan.
C9_Witness ==
  /\ resp.op = "my-plans"
  /\ resp.status = HTTP_200_OK
  /\ Len(resp.body) > 0
  /\ \E id \in DOMAIN store :
       store[id].is_active = FALSE /\ store[id].user_id = resp.caller

-----------------------------------------------------------------------------
(* Grocery list and parser properties, checked under SpecParse.            *)

\* C11: the grocery list returned for a parsed plan holds no category with an
\* empty list and no blank (empty or whitespace-only) ingredient, an ingredient
\* occurs once in its category (the categories are sets of strings), and a
\* category is present exactly when some non-blank ingredient of the plan was
\* assigned to it, so that unmatched categories are absent.
C11_GroceryListClean ==
  ppc = "listed" =>
    /\ DOMAIN pgrocery \subseteq GroceryCategories
    /\ \A c \in DOMAIN pgrocery :
         /\ pgrocery[c] # {}
         /\ \A ing \in pgrocery[c] : Strip(ing) # <<>>
    /\ \A c \in GroceryCategories :
         c \in DOMAIN pgrocery <=>
           \E ing \in AllIngredients(pplan) : Strip(ing) # <<>> /\ CategoryOf(ing) = c

\* a plan with a blank ingredient was categorized, and dairy and fruits, which
\* nothing matched, are absent from its non-empty grocery list
C11_Witness ==
  /\ ppc = "listed"
  /\ <<>> \in AllIngredients(pplan)
  /\ pgrocery # EmptyDict
  /\ "dairy" \notin DOMAIN pgrocery
  /\ "fruits" \notin DOMAIN pgrocery

\* the meal keys, in the order of MealMarkers
MealKeys == <<key_breakfast, key_lunch, key_dinner, key_snack>>

\* {day_k: {m: {name: Name, calories: N, ingredients: [a, b], prep_time: ""}}}
C12_ExpectedPlan(sh) ==
  DayKey(sh.k) :>
    (MealKeys[sh.m] :> [name |-> sh.name,
                        calories |-> sh.cal,
                        ingredients |-> <<Strip(sh.a), Strip(sh.b)>>,
                        prep_time |-> <<>>])

\* C12: for a text made of a header DAY k:, a meal line M: Name - Ncal and a
\* line Ingredients: a, b, with no Prep time line, the parser returns exactly
\* one day day_k holding exactly the meal m (M in lower case) with that name,
\* calories N, the trimmed ingredients in order and an empty prep_time.
C12_PartialParse ==
  (ppc # "idle" /\ pin.kind = "shaped") =>
    /\ ~praised
    /\ pplan = C12_ExpectedPlan(pin.shape)

\* the text DAY 1: / BREAKFAST: Oats - 300cal / Ingredients: oats, milk, with its
\* final newline, was parsed
C12_Witness ==
  /\ ppc = "parsed"
  /\ pin.kind = "shaped"
  /\ pin.shape = [k |-> 1, m |-> 1, name |-> <<"O","a","t","s">>, cal |-> 300,
                  a |-> <<"o","a","t","s">>, b |-> <<"m","i","l","k">>,
                  trail |-> TRUE]
  /\ DOMAIN pplan = {key_day_1}

\* generated_text.split('\n') of the text handed to the parser
InputLines == Split(pin.text, str_newline)

\* C13 as stated: for every text none of whose lines starts with "DAY ", whatever
\* meal, Ingredients or Prep time lines it holds, the parser returns the empty
\* plan, neither raising nor substituting the fallback plan.
C13_NoRawDayLine ==
  (ppc # "idle" /\ \A i \in 1..Len(InputLines) : ~StartsWith(InputLines[i], str_DAY)) =>
    /\ ~praised
    /\ pplan = EmptyDict

\* C13: for every text none of whose lines, once its surrounding whitespace is
\* stripped, starts with "DAY ", whatever meal, Ingredients or Prep time lines it
\* holds, the parser returns the empty plan, neither raising nor substituting
\* the fallback plan.
C13_NoStrippedDayLine ==
  (ppc # "idle" /\ \A i \in 1..Len(InputLines) : ~StartsWith(Strip(InputLines[i]), str_DAY)) =>
    /\ ~praised
    /\ pplan = EmptyDict

\* a text with a meal line, an Ingredients line and a Prep time line but no day
\* header was parsed
C13_Witness ==
  /\ ppc = "parsed"
  /\ \A i \in 1..Len(InputLines) : ~StartsWith(Strip(InputLines[i]), str_DAY)
  /\ \E i \in 1..Len(InputLines) : HasMealMarker(Strip(InputLines[i]))
  /\ \E i \in 1..Len(InputLines) : StartsWith(InputLines[i], str_Ingredients)
  /\ \E i \in 1..Len(InputLines) : StartsWith(InputLines[i], str_Prep_time)
  /\ pplan = EmptyDict

-----------------------------------------------------------------------------
(* Concurrent saves, checked under SpecSaves.                              *)

\* every save request issued so far has completed successfully
AllSaved ==
  /\ DOMAIN saves # {}
  /\ \A r \in DOMAIN saves : saves[r].stage = "saved"

\* a step keeps every stored record as it was, and once all k save requests
\* have completed successfully the store holds k records, one per request under
\* its own _id, each active and owned by the caller that issued the request
C14_Step ==
  /\ \A id \in DOMAIN store : id \in DOMAIN store' /\ store'[id] = store[id]
  /\ AllSaved' =>
       /\ Cardinality(DOMAIN store') = Cardinality(DOMAIN saves')
       /\ \A r \in DOMAIN saves' :
            /\ saves'[r].inserted_id \in DOMAIN store'
            /\ store'[saves'[r].inserted_id].is_active = TRUE
            /\ store'[saves'[r].inserted_id].user_id = saves'[r].user
       /\ \A r1, r2 \in DOMAIN saves' :
            r1 # r2 => saves'[r1].inserted_id # saves'[r2].inserted_id

\* C14: for every interleaving of k save operations, by the same or by different
\* users, that all complete successfully, the store afterwards holds k additional
\* distinct records, each with is_active = true and the user_id of the caller
\* that issued it, and every previously stored record is unchanged.
C14_ConcurrentSaves == [][C14_Step]_vars

\* two saves of the same user overlapped: the request that arrived second was
\* inserted first, and both completed
C14_Witness ==
  /\ AllSaved
  /\ DOMAIN saves = {1, 2}
  /\ saves[1].user = saves[2].user
  /\ saves[1].inserted_id = 2
  /\ saves[2].inserted_id = 1

-----------------------------------------------------------------------------
(* Parser properties on irregular texts, checked under SpecParse.          *)

\* how the loop classifies a line (lines 155-186)
IsDayLine(l) == StartsWith(Strip(l), str_DAY)
IsMealLine(l) == ~IsDayLine(l) /\ HasMealMarker(Strip(l))
IsDetailLine(l) ==
  /\ ~IsDayLine(l)
  /\ ~IsMealLine(l)
  /\ \/ StartsWith(Strip(l), str_Ingredients)
     \/ StartsWith(Strip(l), str_Prep_time)

\* line i follows a day header with no meal line of that day in between
BeforeAnyMeal(lines, i) ==
  \E h \in 1..(i - 1) :
    /\ IsDayLine(lines[h])
    /\ \A j \in (h + 1)..(i - 1) : ~IsDayLine(lines[j]) /\ ~IsMealLine(lines[j])

\* the text without its line i
WithoutLine(lines, i) ==
  Join(SubSeq(lines, 1, i - 1) \o SubSeq(lines, i + 1, Len(lines)), str_newline)

\* C15: an Ingredients: or Prep time: line that follows a day header before any
\* meal line of that day (also when an earlier day did hold meals) has no
\* effect: the plan returned equals the plan returned for the same text with
\* that line removed, and no exception occurs that the shorter text does not
\* cause as well.
C15_DetailBeforeMealIgnored ==
  (ppc # "idle" /\ pin.kind = "pool") =>
    \A i \in 1..Len(InputLines) :
      (IsDetailLine(InputLines[i]) /\ BeforeAnyMeal(InputLines, i)) =>
        /\ pplan = parse_diet_response(PyString(WithoutLine(InputLines, i)), pin.days)
        /\ praised => ParseRaises(PyString(WithoutLine(InputLines, i)))

\* the fields of a meal entry
MealFields == {"name", "calories", "ingredients", "prep_time"}

\* C16: _parse_diet_response never raises: for every text and day count N it
\* returns a plan (a mapping from day keys to mappings from meal keys to meal
\* entries), and whenever an exception occurs while the lines are processed it
\* returns the plan with exactly the N keys day_1 .. day_N, each equal to the
\* fixed day template.
C16_ParserNeverRaises ==
  ppc # "idle" =>
    /\ \A d \in DOMAIN pplan : \A m \in DOMAIN pplan[d] :
         DOMAIN pplan[d][m] = MealFields
    /\ praised =>
         /\ DOMAIN pplan = {DayKey(k) : k \in 1..pin.days}
         /\ \A d \in DOMAIN pplan : pplan[d] = fallback_day

\* a text whose processing raised (a detail line under a new day with the meal of
\* an earlier day still current) was parsed for more than one day
C16_Witness ==
  /\ ppc = "parsed"
  /\ praised
  /\ pin.days >= 2
  /\ Cardinality(DOMAIN pplan) = pin.days

\* the text of a line after its first colon
AfterFirstColon(l) == SubSeq(l, Find(l, str_colon) + 1, Len(l))

\* the last line of the text that is a day header or a meal line (0 when none)
LastDayOrMealLine(lines) ==
  LET S == {i \in 1..Len(lines) : IsDayLine(lines[i]) \/ IsMealLine(lines[i])}
  IN  IF S = {} THEN 0 ELSE CHOOSE i \in S : \A j \in S : j <= i

\* C18: the calories stored for a meal line are the integer of the first run of
\* digits followed by optional whitespace and "cal" (any case) found anywhere in
\* the line after its first colon, 0 when there is none, also when that remainder
\* holds further colons; the value is never negative.  Stated for the meal line
\* that comes last in the text, whose entry no later line replaces.
C18_CaloriesFromRemainder ==
  (ppc # "idle" /\ pin.kind = "pool" /\ ~praised) =>
    LET last == LastDayOrMealLine(InputLines)
        st == ParseText(pin.text)
    IN  (last # 0 /\ IsMealLine(InputLines[last]) /\ st.day # None) =>
          /\ pplan[st.day][st.meal].calories =
               extract_calories(AfterFirstColon(Strip(InputLines[last])))
          /\ pplan[st.day][st.meal].calories >= 0

\* C19: every meal key of every day of a returned plan is one of breakfast,
\* lunch, dinner, snack, whatever the text, and a day holds at most four meals.
C19_MealKeysAreSlots ==
  ppc # "idle" =>
    \A d \in DOMAIN pplan :
      /\ DOMAIN pplan[d] \subseteq {key_breakfast, key_lunch, key_dinner, key_snack}
      /\ Cardinality(DOMAIN pplan[d]) <= 4

\* C20: every plan returned for day count N holds only keys day_k with
\* 1 <= k <= N, and so at most N days, whatever the text.
C20_DayKeysWithinCount ==
  ppc # "idle" =>
    /\ DOMAIN pplan \subseteq {DayKey(k) : k \in 1..pin.days}
    /\ Cardinality(DOMAIN pplan) <= pin.days

-----------------------------------------------------------------------------
(* Exceptions after a received response, checked under Spec.               *)

\* the endpoint answered with a non-empty list: a response was received
ReceivedReply ==
  /\ result.raised = NoException
  /\ result.value.t = "list"
  /\ Len(result.value.items) > 0

\* C17 as stated: if parsing (or categorization) of a received model response
\* throws, generate_diet_plan returns the failure envelope, success=false with an
\* error and a fallback_plan, and not success=true.
C17_ParseFailureFails ==
  (pc = "done" /\ GenerationReply
     /\ ParseRaises(GeneratedText(result.value).text)) =>
    /\ envelope.success = FALSE
    /\ {"error", "fallback_plan"} \subseteq DOMAIN envelope

\* C17: if taking the generated text out of a received response throws,
\* generate_diet_plan returns the failure envelope: success=false, error equal to
\* the exception text, and the fallback_plan of the call-failure case.  An
\* exception while the text is parsed is caught inside _parse_diet_response:
\* generate_diet_plan then returns success=true with the fallback plan of N days
\* as diet_plan and the grocery list of that plan.
C17_ThrowOutcome ==
  (pc = "done" /\ ReceivedReply) =>
    LET g == GeneratedText(result.value)
    IN  IF g.exc # NoException
        THEN /\ envelope.success = FALSE
             /\ envelope.error = g.exc
             /\ envelope.fallback_plan =
                  get_fallback_diet_plan(PrefStyle(prefs), PrefDays(prefs))
        ELSE ParseRaises(g.text) =>
               /\ envelope.success = TRUE
               /\ envelope.diet_plan = get_fallback_structured_plan(PrefDays(prefs))
               /\ envelope.grocery_list = generate_grocery_list(envelope.diet_plan)

\* a generated str whose parsing raised came back as success=true
C17_Witness ==
  /\ pc = "done"
  /\ GenerationReply
  /\ GeneratedText(result.value).text.t = "str"
  /\ ParseRaises(GeneratedText(result.value).text)
  /\ envelope.success = TRUE
  /\ PrefDays(prefs) = 2

-----------------------------------------------------------------------------
(* Categorization order, checked under Spec.                               *)

\* the categories of the returned grocery list that hold the ingredient
CategoriesHolding(ing) ==
  {c \in DOMAIN envelope.grocery_list : ing \in envelope.grocery_list[c]}

\* the place in the priority order of the first keyword list with a keyword that
\* is a substring of the lower-cased ingredient (0 when no list has one)
FirstMatch(ing) ==
  LET hits == {i \in 1..Len(CategoryOrder) : MatchesCategory(Lower(ing), i)}
  IN  IF hits = {} THEN 0 ELSE CHOOSE i \in hits : \A j \in hits : i <= j

\* C21: categorization is first-match-wins in the order proteins, vegetables,
\* fruits, grains, dairy, pantry: each non-blank ingredient of the plan is in
\* exactly one category of the grocery list, the first in that order with a
\* keyword that is a case-insensitive substring of it, or pantry when no keyword
\* matches; the key spices never appears.
C21_FirstMatchWins ==
  (pc = "done" /\ envelope.success = TRUE) =>
    /\ "spices" \notin DOMAIN envelope.grocery_list
    /\ \A ing \in AllIngredients(envelope.diet_plan) :
         Strip(ing) # <<>> =>
           CategoriesHolding(ing) =
             {IF FirstMatch(ing) = 0 THEN "pantry" ELSE CategoryOrder[FirstMatch(ing)]}

\* a plan was categorized in which quinoa, a keyword of both the protein and the
\* grain list, went to proteins, and an ingredient no keyword matches to pantry
C21_Witness ==
  /\ pc = "done"
  /\ envelope.success = TRUE
  /\ "proteins" \in DOMAIN envelope.grocery_list
  /\ <<"q","u","i","n","o","a">> \in envelope.grocery_list["proteins"]
  /\ \E ing \in envelope.grocery_list["pantry"] : FirstMatch(ing) = 0

-----------------------------------------------------------------------------
(* Frame of delete and contents of the listing, checked under SpecStore.   *)

\* the step answered a delete-plan request for a stored plan the caller does not
\* own
ForeignDelete ==
  /\ resp'.op = "delete-plan"
  /\ resp'.plan_id.valid
  /\ resp'.plan_id.oid \in DOMAIN store
  /\ store[resp'.plan_id.oid].user_id # resp'.caller

\* such a step leaves every stored record as it was, and the target, when it was
\* active, still passes the filters of my-plans and get-plan for its owner
ForeignDeleteStep ==
  ForeignDelete =>
    /\ store' = store
    /\ LET id == resp'.plan_id.oid
       IN  store[id].is_active = TRUE =>
             /\ ListFilter(store'[id], store[id].user_id)
             /\ GetFilter(id, store'[id], resp'.plan_id, store[id].user_id)

\* C22: a delete-plan request by a user who does not own the target plan changes
\* nothing: the plan's is_active flag and every other stored record are after
\* the request what they were before it, and the plan stays visible to its owner
\* through my-plans and get-plan.
C22_ForeignDeleteChangesNothing == [][ForeignDeleteStep]_vars

\* a user asked to delete an active plan of another user, and the plan is still
\* active
C22_Witness ==
  /\ resp.op = "delete-plan"
  /\ resp.plan_id.valid
  /\ resp.plan_id.oid \in DOMAIN store
  /\ store[resp.plan_id.oid].user_id # resp.caller
  /\ store[resp.plan_id.oid].is_active = TRUE

-----------------------------------------------------------------------------
(* Contents of the listing, checked under SpecList.                        *)

\* C23: after a successful save by user U, every my-plans call of U returns the
\* plan until U deletes it: a listing consists of exactly all records with
\* user_id = U and is_active = true, ordered by creation time descending,
\* however many plans U has saved.
C23_ListingHoldsAllActive ==
  (resp.op = "my-plans" /\ resp.status = HTTP_200_OK) =>
    /\ ReturnedIds(resp) =
         {id \in DOMAIN store : store[id].user_id = resp.caller
                                /\ store[id].is_active = TRUE}
    /\ \A i, j \in 1..Len(resp.body) :
         i < j => /\ resp.body[i].created_at >= resp.body[j].created_at
                  /\ resp.body[i].id # resp.body[j].id

-----------------------------------------------------------------------------
(* E-mail uniqueness, checked under SpecRegister.                          *)

\* C24: registration keeps e-mail addresses unique: after any interleaving of
\* register requests, two concurrent ones with the same e-mail included, the
\* users collection holds at most one record per e-mail, and a request rejected
\* because its e-mail has a record carries "Email already registered" and
\* inserted nothing.
C24_EmailsUnique ==
  /\ \A id1, id2 \in DOMAIN users :
       users[id1].email = users[id2].email => id1 = id2
  /\ \A r \in DOMAIN regs :
       regs[r].stage = "rejected" =>
         /\ regs[r].status = HTTP_400_BAD_REQUEST
         /\ regs[r].detail = "Email already registered"
         /\ regs[r].inserted_id = 0
         /\ get_user_by_email(users, regs[r].email) # {}

====
